---- MODULE Spec2Model ----
(***************************************************************************)
(* Message routing and policy decisions of ProductChatbot                  *)
(* (src/chatbot.py): the staff-topic gate, the attribute gate, the         *)
(* deterministic staff analytics, the delegation to the language model     *)
(* with its one language-correction retry, and the session (role and       *)
(* conversation history) they act on.                                      *)
(*                                                                         *)
(* Texts are tuples of Unicode code points, so that str.lower(), the       *)
(* substring test `keyword in message` and detect_language are computed    *)
(* the way the code computes them.  Money is kept in cents.                *)
(***************************************************************************)
EXTENDS Integers, Sequences, FiniteSets, TLC

(***************************************************************************)
(* Bounds of the model.                                                    *)
(***************************************************************************)
\* process_message is explored while the conversation history holds fewer
\* than MaxHistory entries.
MaxHistory == 2

\* detect_language is explored on every text of at most MaxLen characters.
MaxLen == 3

(***************************************************************************)
(* Text primitives.                                                        *)
(***************************************************************************)
\* First and last code point of the Arabic block tested by detect_language.
ARABIC_FIRST == 1536
ARABIC_LAST == 1791

\* str.lower() of one character, over the alphabet of the model: ASCII, the
\* Arabic block, U+0130 (lowercases to "i" + U+0307) and U+212A (to "k").
LowerChar(c) ==
    IF c \in 65..90 THEN <<c + 32>>
    ELSE IF c = 304 THEN <<105, 775>>
    ELSE IF c = 8490 THEN <<107>>
    ELSE <<c>>

\* "".join(parts)
RECURSIVE Join(_)
Join(parts) ==
    IF parts = <<>> THEN <<>> ELSE Head(parts) \o Join(Tail(parts))

\* str.lower() of a text: every character lowercased, in order.
Lower(s) ==
    IF \A i \in DOMAIN s : Len(LowerChar(s[i])) = 1
    THEN [i \in DOMAIN s |-> LowerChar(s[i])[1]]
    ELSE Join([i \in DOMAIN s |-> LowerChar(s[i])])

\* Python's `a <= b` on strings: lexicographic order of code points.
RECURSIVE StrLe(_, _)
StrLe(a, b) ==
    IF a = <<>> THEN TRUE
    ELSE IF b = <<>> THEN FALSE
    ELSE IF Head(a) < Head(b) THEN TRUE
    ELSE IF Head(a) > Head(b) THEN FALSE
    ELSE StrLe(Tail(a), Tail(b))

\* Python's `keyword in text` on strings: keyword is a substring of text.
Contains(text, keyword) ==
    \E i \in 0..(Len(text) - Len(keyword)) :
        \A j \in DOMAIN keyword : text[i + j] = keyword[j]

\* any(keyword in text for keyword in keywords)
AnyKeyword(keywords, text) ==
    \E k \in DOMAIN keywords : Contains(text, keywords[k])

\* str(n) of a non-negative integer.
RECURSIVE Digits(_)
Digits(n) ==
    IF n < 10 THEN <<48 + n>> ELSE Digits(n \div 10) \o <<48 + (n % 10)>>

\* The "," grouping of format spec ",.2f" on the integer part.
RECURSIVE Grouped(_)
Grouped(n) ==
    IF n < 1000 THEN Digits(n)
    ELSE Grouped(n \div 1000) \o <<44>>
         \o <<48 + ((n % 1000) \div 100), 48 + ((n \div 10) % 10), 48 + (n % 10)>>

\* f"{x:,.2f}" of an amount of x = cents / 100.
Money(cents) ==
    Grouped(cents \div 100) \o <<46, 48 + ((cents \div 10) % 10), 48 + (cents % 10)>>

(***************************************************************************)
(* String literals of src/chatbot.py.                                      *)
(***************************************************************************)
\* staff_keywords: src/chatbot.py:185-188
staff_keywords == <<
    \* "report"
    <<114, 101, 112, 111, 114, 116>>,
    \* "analytics"
    <<97, 110, 97, 108, 121, 116, 105, 99, 115>>,
    \* "revenue"
    <<114, 101, 118, 101, 110, 117, 101>>,
    \* "sales"
    <<115, 97, 108, 101, 115>>,
    \* "dashboard"
    <<100, 97, 115, 104, 98, 111, 97, 114, 100>>,
    \* "performance"
    <<112, 101, 114, 102, 111, 114, 109, 97, 110, 99, 101>>,
    \* "تقرير"
    <<1578, 1602, 1585, 1610, 1585>>,
    \* "تقارير"
    <<1578, 1602, 1575, 1585, 1610, 1585>>,
    \* "تحليلات"
    <<1578, 1581, 1604, 1610, 1604, 1575, 1578>>,
    \* "إيرادات"
    <<1573, 1610, 1585, 1575, 1583, 1575, 1578>>,
    \* "الإيرادات"
    <<1575, 1604, 1573, 1610, 1585, 1575, 1583, 1575, 1578>>,
    \* "مبيعات"
    <<1605, 1576, 1610, 1593, 1575, 1578>>,
    \* "المبيعات"
    <<1575, 1604, 1605, 1576, 1610, 1593, 1575, 1578>>
    >>

\* report_keywords: src/chatbot.py:329
report_keywords == <<
    \* "report"
    <<114, 101, 112, 111, 114, 116>>,
    \* "analytics"
    <<97, 110, 97, 108, 121, 116, 105, 99, 115>>
    >>

\* revenue_keywords: src/chatbot.py:287
revenue_keywords == <<
    \* "revenue"
    <<114, 101, 118, 101, 110, 117, 101>>,
    \* "total revenue"
    <<116, 111, 116, 97, 108, 32, 114, 101, 118, 101, 110, 117, 101>>,
    \* "إيرادات"
    <<1573, 1610, 1585, 1575, 1583, 1575, 1578>>,
    \* "الإيرادات"
    <<1575, 1604, 1573, 1610, 1585, 1575, 1583, 1575, 1578>>,
    \* "إجمالي الإيرادات"
    <<1573, 1580, 1605, 1575, 1604, 1610, 32, 1575, 1604, 1573, 1610, 1585, 1575, 1583,
           1575, 1578>>,
    \* "المبيعات"
    <<1575, 1604, 1605, 1576, 1610, 1593, 1575, 1578>>,
    \* "إجمالي المبيعات"
    <<1573, 1580, 1605, 1575, 1604, 1610, 32, 1575, 1604, 1605, 1576, 1610, 1593, 1575,
           1578>>,
    \* "تقرير المبيعات"
    <<1578, 1602, 1585, 1610, 1585, 32, 1575, 1604, 1605, 1576, 1610, 1593, 1575, 1578>>
    >>

\* units_keywords: src/chatbot.py:292, pairs of words that must both occur
units_keywords == <<
    \* ("units", "sold")
    << <<117, 110, 105, 116, 115>>,
       <<115, 111, 108, 100>> >>,
    \* ("وحدات", "مباعة")
    << <<1608, 1581, 1583, 1575, 1578>>,
       <<1605, 1576, 1575, 1593, 1577>> >>,
    \* ("الوحدات", "المباعة")
    << <<1575, 1604, 1608, 1581, 1583, 1575, 1578>>,
       <<1575, 1604, 1605, 1576, 1575, 1593, 1577>> >>
    >>

\* best_seller_keywords: src/chatbot.py:297-300
best_seller_keywords == <<
    \* "best seller"
    <<98, 101, 115, 116, 32, 115, 101, 108, 108, 101, 114>>,
    \* "top seller"
    <<116, 111, 112, 32, 115, 101, 108, 108, 101, 114>>,
    \* "most sold"
    <<109, 111, 115, 116, 32, 115, 111, 108, 100>>,
    \* "most selling"
    <<109, 111, 115, 116, 32, 115, 101, 108, 108, 105, 110, 103>>,
    \* "الأكثر مبيعاً"
    <<1575, 1604, 1571, 1603, 1579, 1585, 32, 1605, 1576, 1610, 1593, 1575, 1611>>,
    \* "أفضل مبيعاً"
    <<1571, 1601, 1590, 1604, 32, 1605, 1576, 1610, 1593, 1575, 1611>>,
    \* "الأكثر مبيعا"
    <<1575, 1604, 1571, 1603, 1579, 1585, 32, 1605, 1576, 1610, 1593, 1575>>,
    \* "أكثر منتج"
    <<1571, 1603, 1579, 1585, 32, 1605, 1606, 1578, 1580>>
    >>

\* keywords_name: attribute "name", staff_only = False
keywords_name == <<
    \* "name"
    <<110, 97, 109, 101>>,
    \* "called"
    <<99, 97, 108, 108, 101, 100>>,
    \* "product"
    <<112, 114, 111, 100, 117, 99, 116>>
    >>

\* keywords_description: attribute "description", staff_only = False
keywords_description == <<
    \* "description"
    <<100, 101, 115, 99, 114, 105, 112, 116, 105, 111, 110>>,
    \* "details"
    <<100, 101, 116, 97, 105, 108, 115>>,
    \* "about"
    <<97, 98, 111, 117, 116>>
    >>

\* keywords_category: attribute "category", staff_only = False
keywords_category == <<
    \* "category"
    <<99, 97, 116, 101, 103, 111, 114, 121>>,
    \* "type"
    <<116, 121, 112, 101>>,
    \* "segment"
    <<115, 101, 103, 109, 101, 110, 116>>,
    \* "kind"
    <<107, 105, 110, 100>>
    >>

\* keywords_price: attribute "price", staff_only = False
keywords_price == <<
    \* "price"
    <<112, 114, 105, 99, 101>>,
    \* "cost"
    <<99, 111, 115, 116>>,
    \* "how much"
    <<104, 111, 119, 32, 109, 117, 99, 104>>,
    \* "usd"
    <<117, 115, 100>>,
    \* "dollar"
    <<100, 111, 108, 108, 97, 114>>
    >>

\* keywords_units_sold: attribute "units_sold", staff_only = True
keywords_units_sold == <<
    \* "units sold"
    <<117, 110, 105, 116, 115, 32, 115, 111, 108, 100>>,
    \* "sold units"
    <<115, 111, 108, 100, 32, 117, 110, 105, 116, 115>>,
    \* "units"
    <<117, 110, 105, 116, 115>>,
    \* "sold"
    <<115, 111, 108, 100>>,
    \* "sales volume"
    <<115, 97, 108, 101, 115, 32, 118, 111, 108, 117, 109, 101>>,
    \* "best seller"
    <<98, 101, 115, 116, 32, 115, 101, 108, 108, 101, 114>>,
    \* "top seller"
    <<116, 111, 112, 32, 115, 101, 108, 108, 101, 114>>,
    \* "most sold"
    <<109, 111, 115, 116, 32, 115, 111, 108, 100>>,
    \* "most selling"
    <<109, 111, 115, 116, 32, 115, 101, 108, 108, 105, 110, 103>>,
    \* "وحدات مباعة"
    <<1608, 1581, 1583, 1575, 1578, 32, 1605, 1576, 1575, 1593, 1577>>,
    \* "الوحدات المباعة"
    <<1575, 1604, 1608, 1581, 1583, 1575, 1578, 32, 1575, 1604, 1605, 1576, 1575, 1593,
           1577>>,
    \* "مباعة"
    <<1605, 1576, 1575, 1593, 1577>>,
    \* "الأكثر مبيعاً"
    <<1575, 1604, 1571, 1603, 1579, 1585, 32, 1605, 1576, 1610, 1593, 1575, 1611>>,
    \* "أفضل مبيعاً"
    <<1571, 1601, 1590, 1604, 32, 1605, 1576, 1610, 1593, 1575, 1611>>
    >>

\* keywords_revenue: attribute "revenue", staff_only = True
keywords_revenue == <<
    \* "revenue"
    <<114, 101, 118, 101, 110, 117, 101>>,
    \* "total sales"
    <<116, 111, 116, 97, 108, 32, 115, 97, 108, 101, 115>>,
    \* "sales revenue"
    <<115, 97, 108, 101, 115, 32, 114, 101, 118, 101, 110, 117, 101>>,
    \* "earnings"
    <<101, 97, 114, 110, 105, 110, 103, 115>>,
    \* "إيرادات"
    <<1573, 1610, 1585, 1575, 1583, 1575, 1578>>,
    \* "الإيرادات"
    <<1575, 1604, 1573, 1610, 1585, 1575, 1583, 1575, 1578>>,
    \* "المبيعات"
    <<1575, 1604, 1605, 1576, 1610, 1593, 1575, 1578>>
    >>

\* TOPIC_REJECTION_AR is the text "تقارير المبيعات والتحليلات متاحة فقط لموظفي الشركة. يمكنني مساعدتك بمعلومات عن المنتجات بدلاً من ذلك."
TOPIC_REJECTION_AR ==
    <<1578, 1602, 1575, 1585, 1610, 1585, 32, 1575, 1604, 1605, 1576, 1610, 1593, 1575,
     1578, 32, 1608, 1575, 1604, 1578, 1581, 1604, 1610, 1604, 1575, 1578, 32, 1605,
     1578, 1575, 1581, 1577, 32, 1601, 1602, 1591, 32, 1604, 1605, 1608, 1592, 1601,
     1610, 32, 1575, 1604, 1588, 1585, 1603, 1577, 46, 32, 1610, 1605, 1603, 1606, 1606,
     1610, 32, 1605, 1587, 1575, 1593, 1583, 1578, 1603, 32, 1576, 1605, 1593, 1604,
     1608, 1605, 1575, 1578, 32, 1593, 1606, 32, 1575, 1604, 1605, 1606, 1578, 1580,
     1575, 1578, 32, 1576, 1583, 1604, 1575, 1611, 32, 1605, 1606, 32, 1584, 1604, 1603,
     46>>

\* TOPIC_REJECTION_EN is the text "Sales reports and analytics are only available to staff members. I can help you with product information instead."
TOPIC_REJECTION_EN ==
    <<83, 97, 108, 101, 115, 32, 114, 101, 112, 111, 114, 116, 115, 32, 97, 110, 100, 32,
     97, 110, 97, 108, 121, 116, 105, 99, 115, 32, 97, 114, 101, 32, 111, 110, 108, 121,
     32, 97, 118, 97, 105, 108, 97, 98, 108, 101, 32, 116, 111, 32, 115, 116, 97, 102,
     102, 32, 109, 101, 109, 98, 101, 114, 115, 46, 32, 73, 32, 99, 97, 110, 32, 104,
     101, 108, 112, 32, 121, 111, 117, 32, 119, 105, 116, 104, 32, 112, 114, 111, 100,
     117, 99, 116, 32, 105, 110, 102, 111, 114, 109, 97, 116, 105, 111, 110, 32, 105,
     110, 115, 116, 101, 97, 100, 46>>

\* ATTRIBUTE_REJECTION_AR is the text "This information is available to staff only."
ATTRIBUTE_REJECTION_AR ==
    <<84, 104, 105, 115, 32, 105, 110, 102, 111, 114, 109, 97, 116, 105, 111, 110, 32, 105,
     115, 32, 97, 118, 97, 105, 108, 97, 98, 108, 101, 32, 116, 111, 32, 115, 116, 97,
     102, 102, 32, 111, 110, 108, 121, 46>>

\* ATTRIBUTE_REJECTION_EN is the text "هذه المعلومة متاحة فقط لموظفي الشركة."
ATTRIBUTE_REJECTION_EN ==
    <<1607, 1584, 1607, 32, 1575, 1604, 1605, 1593, 1604, 1608, 1605, 1577, 32, 1605, 1578,
     1575, 1581, 1577, 32, 1601, 1602, 1591, 32, 1604, 1605, 1608, 1592, 1601, 1610, 32,
     1575, 1604, 1588, 1585, 1603, 1577, 46>>

\* APOLOGY is the text "I apologize, but I'm experiencing technical difficulties. Please try again later."
APOLOGY ==
    <<73, 32, 97, 112, 111, 108, 111, 103, 105, 122, 101, 44, 32, 98, 117, 116, 32, 73, 39,
     109, 32, 101, 120, 112, 101, 114, 105, 101, 110, 99, 105, 110, 103, 32, 116, 101,
     99, 104, 110, 105, 99, 97, 108, 32, 100, 105, 102, 102, 105, 99, 117, 108, 116,
     105, 101, 115, 46, 32, 80, 108, 101, 97, 115, 101, 32, 116, 114, 121, 32, 97, 103,
     97, 105, 110, 32, 108, 97, 116, 101, 114, 46>>

\* RESTATE_EN is the text "Respond ONLY in English. Do not include any Arabic. "
RESTATE_EN ==
    <<82, 101, 115, 112, 111, 110, 100, 32, 79, 78, 76, 89, 32, 105, 110, 32, 69, 110, 103,
     108, 105, 115, 104, 46, 32, 68, 111, 32, 110, 111, 116, 32, 105, 110, 99, 108, 117,
     100, 101, 32, 97, 110, 121, 32, 65, 114, 97, 98, 105, 99, 46, 32>>

\* RESTATE_AR is the text "أعد الإجابة باللغة العربية فقط ولا تستخدم الإنجليزية."
RESTATE_AR ==
    <<1571, 1593, 1583, 32, 1575, 1604, 1573, 1580, 1575, 1576, 1577, 32, 1576, 1575, 1604,
     1604, 1594, 1577, 32, 1575, 1604, 1593, 1585, 1576, 1610, 1577, 32, 1601, 1602,
     1591, 32, 1608, 1604, 1575, 32, 1578, 1587, 1578, 1582, 1583, 1605, 32, 1575, 1604,
     1573, 1606, 1580, 1604, 1610, 1586, 1610, 1577, 46>>

\* QUESTION_PREFIX is the text "\nQuestion: "
QUESTION_PREFIX ==
    <<10, 81, 117, 101, 115, 116, 105, 111, 110, 58, 32>>

\* EN_REVENUE_HEAD is the text "Total revenue: $"
EN_REVENUE_HEAD ==
    <<84, 111, 116, 97, 108, 32, 114, 101, 118, 101, 110, 117, 101, 58, 32, 36>>

\* EN_REVENUE_TAIL is the text " USD."
EN_REVENUE_TAIL ==
    <<32, 85, 83, 68, 46>>

\* AR_REVENUE_HEAD is the text "إجمالي الإيرادات: $"
AR_REVENUE_HEAD ==
    <<1573, 1580, 1605, 1575, 1604, 1610, 32, 1575, 1604, 1573, 1610, 1585, 1575, 1583,
     1575, 1578, 58, 32, 36>>

\* AR_REVENUE_TAIL is the text " دولار أمريكي."
AR_REVENUE_TAIL ==
    <<32, 1583, 1608, 1604, 1575, 1585, 32, 1571, 1605, 1585, 1610, 1603, 1610, 46>>

\* EN_UNITS_HEAD is the text "Total units sold: "
EN_UNITS_HEAD ==
    <<84, 111, 116, 97, 108, 32, 117, 110, 105, 116, 115, 32, 115, 111, 108, 100, 58, 32>>

\* AR_UNITS_HEAD is the text "إجمالي الوحدات المباعة: "
AR_UNITS_HEAD ==
    <<1573, 1580, 1605, 1575, 1604, 1610, 32, 1575, 1604, 1608, 1581, 1583, 1575, 1578, 32,
     1575, 1604, 1605, 1576, 1575, 1593, 1577, 58, 32>>

\* EN_BEST_HEAD is the text "Best seller: "
EN_BEST_HEAD ==
    <<66, 101, 115, 116, 32, 115, 101, 108, 108, 101, 114, 58, 32>>

\* EN_BEST_MID is the text " units "
EN_BEST_MID ==
    <<32, 117, 110, 105, 116, 115, 32>>

\* AR_BEST_HEAD is the text "أفضل منتج مبيعاً: "
AR_BEST_HEAD ==
    <<1571, 1601, 1590, 1604, 32, 1605, 1606, 1578, 1580, 32, 1605, 1576, 1610, 1593, 1575,
     1611, 58, 32>>

\* AR_BEST_MID is the text " وحدة "
AR_BEST_MID ==
    <<32, 1608, 1581, 1583, 1577, 32>>

\* BEST_DASH is the text " — "
BEST_DASH ==
    <<32, 8212, 32>>

\* MONEY_OPEN is the text "($"
MONEY_OPEN ==
    <<40, 36>>

\* MONEY_CLOSE is the text ")."
MONEY_CLOSE ==
    <<41, 46>>

\* FULL_STOP is the text "."
FULL_STOP ==
    <<46>>

\* EN_NO_PRODUCTS is the text "No products available."
EN_NO_PRODUCTS ==
    <<78, 111, 32, 112, 114, 111, 100, 117, 99, 116, 115, 32, 97, 118, 97, 105, 108, 97, 98,
     108, 101, 46>>

\* AR_NO_PRODUCTS is the text "لا توجد منتجات متاحة."
AR_NO_PRODUCTS ==
    <<1604, 1575, 32, 1578, 1608, 1580, 1583, 32, 1605, 1606, 1578, 1580, 1575, 1578, 32,
     1605, 1578, 1575, 1581, 1577, 46>>

\* REPORT_HEAD is the text "\n=== SALES REPORT ===\nGenerated: "
REPORT_HEAD ==
    <<10, 61, 61, 61, 32, 83, 65, 76, 69, 83, 32, 82, 69, 80, 79, 82, 84, 32, 61, 61, 61,
     10, 71, 101, 110, 101, 114, 97, 116, 101, 100, 58, 32>>

\* REPORT_SUMMARY is the text "\n\nSummary:\n- Total Products: "
REPORT_SUMMARY ==
    <<10, 10, 83, 117, 109, 109, 97, 114, 121, 58, 10, 45, 32, 84, 111, 116, 97, 108, 32,
     80, 114, 111, 100, 117, 99, 116, 115, 58, 32>>

\* REPORT_TOTAL_UNITS is the text "\n- Total Units Sold: "
REPORT_TOTAL_UNITS ==
    <<10, 45, 32, 84, 111, 116, 97, 108, 32, 85, 110, 105, 116, 115, 32, 83, 111, 108, 100,
     58, 32>>

\* REPORT_TOTAL_REVENUE is the text "\n- Total Revenue: $"
REPORT_TOTAL_REVENUE ==
    <<10, 45, 32, 84, 111, 116, 97, 108, 32, 82, 101, 118, 101, 110, 117, 101, 58, 32, 36>>

\* REPORT_TOP is the text "\n\nTop Performer:\n- Product: "
REPORT_TOP ==
    <<10, 10, 84, 111, 112, 32, 80, 101, 114, 102, 111, 114, 109, 101, 114, 58, 10, 45, 32,
     80, 114, 111, 100, 117, 99, 116, 58, 32>>

\* REPORT_TOP_UNITS is the text "\n- Units Sold: "
REPORT_TOP_UNITS ==
    <<10, 45, 32, 85, 110, 105, 116, 115, 32, 83, 111, 108, 100, 58, 32>>

\* REPORT_TOP_REVENUE is the text "\n- Revenue: $"
REPORT_TOP_REVENUE ==
    <<10, 45, 32, 82, 101, 118, 101, 110, 117, 101, 58, 32, 36>>

\* REPORT_LIST is the text "\n\nProducts by Sales:\n"
REPORT_LIST ==
    <<10, 10, 80, 114, 111, 100, 117, 99, 116, 115, 32, 98, 121, 32, 83, 97, 108, 101, 115,
     58, 10>>

\* REPORT_ITEM is the text "\n- "
REPORT_ITEM ==
    <<10, 45, 32>>

\* REPORT_ITEM_SEP is the text ": "
REPORT_ITEM_SEP ==
    <<58, 32>>

\* REPORT_ITEM_UNITS is the text " units ($"
REPORT_ITEM_UNITS ==
    <<32, 117, 110, 105, 116, 115, 32, 40, 36>>

\* REPORT_ITEM_END is the text ")"
REPORT_ITEM_END ==
    <<41>>

(***************************************************************************)
(* Inputs explored: user messages, gateway replies, role strings, product  *)
(* names and report timestamps.                                            *)
(***************************************************************************)
\* MSG_EMPTY is the text ""
MSG_EMPTY ==
    <<>>

\* MSG_PRICE_EN is the text "What is the price?"
MSG_PRICE_EN ==
    <<87, 104, 97, 116, 32, 105, 115, 32, 116, 104, 101, 32, 112, 114, 105, 99, 101, 63>>

\* MSG_PRICE_AR is the text "ما هو السعر؟"
MSG_PRICE_AR ==
    <<1605, 1575, 32, 1607, 1608, 32, 1575, 1604, 1587, 1593, 1585, 1567>>

\* MSG_SALES_REPORT is the text "sales report"
MSG_SALES_REPORT ==
    <<115, 97, 108, 101, 115, 32, 114, 101, 112, 111, 114, 116>>

\* MSG_UNITS_SOLD is the text "units sold"
MSG_UNITS_SOLD ==
    <<117, 110, 105, 116, 115, 32, 115, 111, 108, 100>>

\* MSG_TOTAL_REVENUE is the text "What is Total Revenue?"
MSG_TOTAL_REVENUE ==
    <<87, 104, 97, 116, 32, 105, 115, 32, 84, 111, 116, 97, 108, 32, 82, 101, 118, 101, 110,
     117, 101, 63>>

\* MSG_EARNINGS is the text "earnings"
MSG_EARNINGS ==
    <<101, 97, 114, 110, 105, 110, 103, 115>>

\* MSG_BEST_SELLER is the text "best seller"
MSG_BEST_SELLER ==
    <<98, 101, 115, 116, 32, 115, 101, 108, 108, 101, 114>>

\* MSG_UNITS_AR is the text "وحدات مباعة"
MSG_UNITS_AR ==
    <<1608, 1581, 1583, 1575, 1578, 32, 1605, 1576, 1575, 1593, 1577>>

\* MSG_SALES_REPORT_AR is the text "تقرير المبيعات"
MSG_SALES_REPORT_AR ==
    <<1578, 1602, 1585, 1610, 1585, 32, 1575, 1604, 1605, 1576, 1610, 1593, 1575, 1578>>

\* MSG_REPORT_MIXED is the text "report عن المبيعات"
MSG_REPORT_MIXED ==
    <<114, 101, 112, 111, 114, 116, 32, 1593, 1606, 32, 1575, 1604, 1605, 1576, 1610, 1593,
     1575, 1578>>

\* MSG_BEST_SELLER_AR is the text "الأكثر مبيعاً"
MSG_BEST_SELLER_AR ==
    <<1575, 1604, 1571, 1603, 1579, 1585, 32, 1605, 1576, 1610, 1593, 1575, 1611>>

\* MSG_TOP_PRODUCT_AR is the text "أكثر منتج مبيعا"
MSG_TOP_PRODUCT_AR ==
    <<1571, 1603, 1579, 1585, 32, 1605, 1606, 1578, 1580, 32, 1605, 1576, 1610, 1593, 1575>>

\* MSG_REVENUE_AND_UNITS is the text "revenue and units sold"
MSG_REVENUE_AND_UNITS ==
    <<114, 101, 118, 101, 110, 117, 101, 32, 97, 110, 100, 32, 117, 110, 105, 116, 115, 32,
     115, 111, 108, 100>>

\* MSG_ANALYTICS_BEST is the text "Analytics: best seller"
MSG_ANALYTICS_BEST ==
    <<65, 110, 97, 108, 121, 116, 105, 99, 115, 58, 32, 98, 101, 115, 116, 32, 115, 101,
     108, 108, 101, 114>>

\* REPLY_EN is the text "The price is $49 USD."
REPLY_EN ==
    <<84, 104, 101, 32, 112, 114, 105, 99, 101, 32, 105, 115, 32, 36, 52, 57, 32, 85, 83,
     68, 46>>

\* REPLY_AR is the text "السعر هو 49 دولار."
REPLY_AR ==
    <<1575, 1604, 1587, 1593, 1585, 32, 1607, 1608, 32, 52, 57, 32, 1583, 1608, 1604, 1575,
     1585, 46>>

\* VALUE_CUSTOMER is the text "customer"
VALUE_CUSTOMER ==
    <<99, 117, 115, 116, 111, 109, 101, 114>>

\* VALUE_STAFF is the text "staff"
VALUE_STAFF ==
    <<115, 116, 97, 102, 102>>

\* ROLE_STAFF_UPPER is the text "STAFF"
ROLE_STAFF_UPPER ==
    <<83, 84, 65, 70, 70>>

\* ROLE_STAFF_MIXED is the text "sTaFf"
ROLE_STAFF_MIXED ==
    <<115, 84, 97, 70, 102>>

\* ROLE_CUSTOMER_UPPER is the text "CUSTOMER"
ROLE_CUSTOMER_UPPER ==
    <<67, 85, 83, 84, 79, 77, 69, 82>>

\* ROLE_ADMIN is the text "admin"
ROLE_ADMIN ==
    <<97, 100, 109, 105, 110>>

\* ROLE_EMPTY is the text ""
ROLE_EMPTY ==
    <<>>

\* ROLE_STAFF_SPACE is the text "staff "
ROLE_STAFF_SPACE ==
    <<115, 116, 97, 102, 102, 32>>

\* NAME_CRM is the text "CloudCRM"
NAME_CRM ==
    <<67, 108, 111, 117, 100, 67, 82, 77>>

\* NAME_CRM_AR is the text "نظام العملاء"
NAME_CRM_AR ==
    <<1606, 1592, 1575, 1605, 32, 1575, 1604, 1593, 1605, 1604, 1575, 1569>>

\* NAME_ERP is the text "ERP Suite"
NAME_ERP ==
    <<69, 82, 80, 32, 83, 117, 105, 116, 101>>

\* NAME_ERP_AR is the text "نظام الموارد"
NAME_ERP_AR ==
    <<1606, 1592, 1575, 1605, 32, 1575, 1604, 1605, 1608, 1575, 1585, 1583>>

\* NAME_POS is the text "POS"
NAME_POS ==
    <<80, 79, 83>>

\* NAME_POS_AR is the text "نقاط البيع"
NAME_POS_AR ==
    <<1606, 1602, 1575, 1591, 32, 1575, 1604, 1576, 1610, 1593>>

\* TS_1 is the text "2025-01-01 09:00:00"
TS_1 ==
    <<50, 48, 50, 53, 45, 48, 49, 45, 48, 49, 32, 48, 57, 58, 48, 48, 58, 48, 48>>

\* TS_2 is the text "2025-12-31 23:59:59"
TS_2 ==
    <<50, 48, 50, 53, 45, 49, 50, 45, 51, 49, 32, 50, 51, 58, 53, 57, 58, 53, 57>>

\* User messages explored by process_message.
Messages ==
    { MSG_EMPTY, MSG_PRICE_EN, MSG_PRICE_AR, MSG_SALES_REPORT, MSG_UNITS_SOLD,
      MSG_TOTAL_REVENUE, MSG_EARNINGS, MSG_BEST_SELLER, MSG_UNITS_AR,
      MSG_SALES_REPORT_AR, MSG_REPORT_MIXED, MSG_BEST_SELLER_AR,
      MSG_TOP_PRODUCT_AR, MSG_REVENUE_AND_UNITS, MSG_ANALYTICS_BEST }

\* Role strings explored by set_user_role.
RoleInputs ==
    { VALUE_CUSTOMER, VALUE_STAFF, ROLE_STAFF_UPPER, ROLE_STAFF_MIXED,
      ROLE_CUSTOMER_UPPER, ROLE_ADMIN, ROLE_EMPTY, ROLE_STAFF_SPACE }

\* What one call of the external model does: it returns a text or it raises.
GatewayOutcomes ==
    { [kind |-> "reply", text |-> REPLY_EN],
      [kind |-> "reply", text |-> REPLY_AR],
      [kind |-> "error", text |-> <<>>] }

\* Values of datetime.now().strftime('%Y-%m-%d %H:%M:%S').
Timestamps == { TS_1, TS_2 }

\* Product records; price is in cents.
BaseProducts ==
    << [id |-> 1, name |-> NAME_CRM, name_ar |-> NAME_CRM_AR, price |-> 4999,
        currency |-> "USD", category |-> "CRM", units_sold |-> 0,
        description |-> "crm", description_ar |-> "crm_ar"],
       [id |-> 2, name |-> NAME_ERP, name_ar |-> NAME_ERP_AR, price |-> 129999,
        currency |-> "USD", category |-> "ERP", units_sold |-> 0,
        description |-> "erp", description_ar |-> "erp_ar"],
       [id |-> 3, name |-> NAME_POS, name_ar |-> NAME_POS_AR, price |-> 1500,
        currency |-> "USD", category |-> "Retail", units_sold |-> 0,
        description |-> "pos", description_ar |-> "pos_ar"] >>

\* The base products with the given units_sold figures.
WithUnits(units) ==
    [i \in DOMAIN BaseProducts |-> [BaseProducts[i] EXCEPT !.units_sold = units[i]]]

\* Catalogs a session may be constructed with: data.get('products', []).
Catalogs ==
    { <<>>, WithUnits(<<10, 50, 30>>), WithUnits(<<30, 30, 10>>) }

(***************************************************************************)
(* The chatbot.  The fields of self that a method reads are its first      *)
(* parameters: role, policies, catalog, prompt, history.                   *)
(***************************************************************************)
\* class UserRole
CUSTOMER == "customer"
STAFF == "staff"
UserRole == {CUSTOMER, STAFF}

\* UserRole(value): the member with that value, or ValueError.
UserRoleOf(value) ==
    IF value = VALUE_CUSTOMER THEN CUSTOMER
    ELSE IF value = VALUE_STAFF THEN STAFF
    ELSE "ValueError"

\* Python's None, and the truth value of an Optional[str].
None == <<0 - 1>>
Truthy(v) == v # None /\ v # <<>>

\* What a call hands back: a returned value or an exception that escapes.
Return(v) == [raised |-> FALSE, value |-> v]
Raise(e) == [raised |-> TRUE, value |-> e]

\* _format_products_for_context: one block per product, in catalog order,
\* with the fields the f-string prints.
format_products_for_context(catalog) ==
    [i \in DOMAIN catalog |->
        << catalog[i].id, catalog[i].name, catalog[i].name_ar,
           catalog[i].price, catalog[i].currency, catalog[i].category,
           catalog[i].units_sold, catalog[i].description,
           catalog[i].description_ar >>]

\* _create_system_prompt: the fixed instructions around the product database.
create_system_prompt(catalog) ==
    [instructions |-> "scope, language rule, guidelines, rejections, roles",
     products_context |-> format_products_for_context(catalog)]

\* detect_language(text)
arabic_count(text) ==
    Cardinality({i \in DOMAIN text : ARABIC_FIRST <= text[i] /\ text[i] <= ARABIC_LAST})

english_count(text) ==
    Cardinality({i \in DOMAIN text :
        StrLe(<<97>>, LowerChar(text[i])) /\ StrLe(LowerChar(text[i]), <<122>>)})

detect_language(text) ==
    IF arabic_count(text) > english_count(text) THEN "arabic" ELSE "english"

\* _build_attribute_policies: the entries in dict order.
build_attribute_policies ==
    << [attr |-> "name", staff_only |-> FALSE, keywords |-> keywords_name],
       [attr |-> "description", staff_only |-> FALSE, keywords |-> keywords_description],
       [attr |-> "category", staff_only |-> FALSE, keywords |-> keywords_category],
       [attr |-> "price", staff_only |-> FALSE, keywords |-> keywords_price],
       [attr |-> "units_sold", staff_only |-> TRUE, keywords |-> keywords_units_sold],
       [attr |-> "revenue", staff_only |-> TRUE, keywords |-> keywords_revenue] >>

\* Variant of set_user_role_value: the text is looked up without lower().
set_user_role_exact(role_text) ==
    IF UserRoleOf(role_text) = "ValueError" THEN CUSTOMER
    ELSE UserRoleOf(role_text)

\* set_user_role(role_text): the role it leaves in self.user_role.
set_user_role_value(role_text) ==
    IF UserRoleOf(Lower(role_text)) = "ValueError" THEN CUSTOMER
    ELSE UserRoleOf(Lower(role_text))

\* _check_staff_only_request(user_message)
check_staff_only_request(role, user_message) ==
    LET lower_message == Lower(user_message)
        is_staff_request == AnyKeyword(staff_keywords, lower_message)
    IN  IF is_staff_request /\ role = CUSTOMER
        THEN IF detect_language(user_message) = "arabic"
             THEN TOPIC_REJECTION_AR
             ELSE TOPIC_REJECTION_EN
        ELSE None

\* Variant of check_attribute_access: only the units_sold entry is consulted.
check_attribute_access_units_only(role, policies, user_message) ==
    LET lower_message == Lower(user_message)
        hit == \E k \in DOMAIN policies :
                   /\ policies[k].attr = "units_sold"
                   /\ AnyKeyword(policies[k].keywords, lower_message)
    IN  IF role = STAFF THEN None
        ELSE IF hit
        THEN IF detect_language(user_message) = "arabic"
             THEN ATTRIBUTE_REJECTION_AR
             ELSE ATTRIBUTE_REJECTION_EN
        ELSE None

\* Variant of check_attribute_access: Staff is scanned like a Customer (lines
\* 204-205 left out).
check_attribute_access_any_role(role, policies, user_message) ==
    LET lower_message == Lower(user_message)
        hit == \E k \in DOMAIN policies :
                   /\ policies[k].staff_only
                   /\ AnyKeyword(policies[k].keywords, lower_message)
    IN  IF hit
        THEN IF detect_language(user_message) = "arabic"
             THEN ATTRIBUTE_REJECTION_AR
             ELSE ATTRIBUTE_REJECTION_EN
        ELSE None

\* _check_attribute_access(user_message)
check_attribute_access(role, policies, user_message) ==
    LET lower_message == Lower(user_message)
        hit == \E k \in DOMAIN policies :
                   /\ policies[k].staff_only
                   /\ AnyKeyword(policies[k].keywords, lower_message)
    IN  IF role = STAFF THEN None
        ELSE IF hit
        THEN IF detect_language(user_message) = "arabic"
             THEN ATTRIBUTE_REJECTION_AR
             ELSE ATTRIBUTE_REJECTION_EN
        ELSE None

\* Variant of total_revenue: the prices are summed without the units sold.
RECURSIVE total_price(_)
total_price(catalog) ==
    IF catalog = <<>> THEN 0
    ELSE Head(catalog).price + total_price(Tail(catalog))

\* sum(p['price'] * p['units_sold'] for p in self.products), in cents.
RECURSIVE total_revenue(_)
total_revenue(catalog) ==
    IF catalog = <<>> THEN 0
    ELSE Head(catalog).price * Head(catalog).units_sold + total_revenue(Tail(catalog))

\* sum(p['units_sold'] for p in self.products)
RECURSIVE total_units(_)
total_units(catalog) ==
    IF catalog = <<>> THEN 0
    ELSE Head(catalog).units_sold + total_units(Tail(catalog))

\* Variant of best_seller_index: among records with the largest units_sold
\* the last one is taken.
last_best_seller_index(catalog) ==
    CHOOSE i \in DOMAIN catalog :
        /\ \A j \in DOMAIN catalog : catalog[j].units_sold <= catalog[i].units_sold
        /\ \A j \in (i + 1)..Len(catalog) : catalog[j].units_sold < catalog[i].units_sold

\* Index of max(self.products, key=units_sold): the first record with the
\* largest units_sold.  The catalog is not empty.
best_seller_index(catalog) ==
    CHOOSE i \in DOMAIN catalog :
        /\ \A j \in DOMAIN catalog : catalog[j].units_sold <= catalog[i].units_sold
        /\ \A j \in 1..(i - 1) : catalog[j].units_sold < catalog[i].units_sold

\* sorted(self.products, key=units_sold, reverse=True): descending, stable.
RECURSIVE sorted_products(_)
sorted_products(catalog) ==
    IF catalog = <<>> THEN <<>>
    ELSE LET i == best_seller_index(catalog)
         IN  <<catalog[i]>>
             \o sorted_products(SubSeq(catalog, 1, i - 1)
                                \o SubSeq(catalog, i + 1, Len(catalog)))

\* The lines the report adds for the sorted products.
RECURSIVE report_items(_)
report_items(sorted) ==
    IF sorted = <<>> THEN <<>>
    ELSE REPORT_ITEM \o Head(sorted).name \o REPORT_ITEM_SEP
         \o Digits(Head(sorted).units_sold) \o REPORT_ITEM_UNITS
         \o Money(Head(sorted).price * Head(sorted).units_sold) \o REPORT_ITEM_END
         \o report_items(Tail(sorted))

\* _generate_sales_report(): max() of an empty catalog raises ValueError.
generate_sales_report(catalog, now) ==
    IF catalog = <<>> THEN Raise("ValueError")
    ELSE LET best_seller == catalog[best_seller_index(catalog)]
         IN  Return(
               REPORT_HEAD \o now
               \o REPORT_SUMMARY \o Digits(Len(catalog))
               \o REPORT_TOTAL_UNITS \o Digits(total_units(catalog))
               \o REPORT_TOTAL_REVENUE \o Money(total_revenue(catalog))
               \o REPORT_TOP \o best_seller.name
               \o REPORT_TOP_UNITS \o Digits(best_seller.units_sold)
               \o REPORT_TOP_REVENUE \o Money(best_seller.price * best_seller.units_sold)
               \o REPORT_LIST
               \o report_items(sorted_products(catalog)))

\* The formatters of _handle_staff_analytics.
fmt_en_revenue(catalog) == EN_REVENUE_HEAD \o Money(total_revenue(catalog)) \o EN_REVENUE_TAIL
fmt_ar_revenue(catalog) == AR_REVENUE_HEAD \o Money(total_revenue(catalog)) \o AR_REVENUE_TAIL
fmt_en_units(catalog) == EN_UNITS_HEAD \o Digits(total_units(catalog)) \o FULL_STOP
fmt_ar_units(catalog) == AR_UNITS_HEAD \o Digits(total_units(catalog)) \o FULL_STOP

fmt_en_best(catalog) ==
    IF catalog = <<>> THEN EN_NO_PRODUCTS
    ELSE LET best_seller == catalog[best_seller_index(catalog)]
         IN  EN_BEST_HEAD \o best_seller.name \o BEST_DASH
             \o Digits(best_seller.units_sold) \o EN_BEST_MID
             \o MONEY_OPEN \o Money(best_seller.price * best_seller.units_sold)
             \o MONEY_CLOSE

fmt_ar_best(catalog) ==
    IF catalog = <<>> THEN AR_NO_PRODUCTS
    ELSE LET best_seller == catalog[best_seller_index(catalog)]
         IN  AR_BEST_HEAD \o best_seller.name_ar \o BEST_DASH
             \o Digits(best_seller.units_sold) \o AR_BEST_MID
             \o MONEY_OPEN \o Money(best_seller.price * best_seller.units_sold)
             \o MONEY_CLOSE

\* Variant of handle_staff_analytics: the role is not looked at (line 254
\* left out).
handle_analytics_any_role(role, catalog, user_message, language) ==
    LET lower_message == Lower(user_message)
        units_match ==
            \E k \in DOMAIN units_keywords :
                \A w \in DOMAIN units_keywords[k] :
                    Contains(lower_message, units_keywords[k][w])
    IN  IF AnyKeyword(revenue_keywords, lower_message)
        THEN IF language = "english" THEN fmt_en_revenue(catalog)
             ELSE fmt_ar_revenue(catalog)
        ELSE IF units_match
        THEN IF language = "english" THEN fmt_en_units(catalog)
             ELSE fmt_ar_units(catalog)
        ELSE IF AnyKeyword(best_seller_keywords, lower_message)
        THEN IF language = "english" THEN fmt_en_best(catalog)
             ELSE fmt_ar_best(catalog)
        ELSE None

\* Variant of handle_staff_analytics: the units family is tested before the
\* revenue family.
handle_analytics_units_first(role, catalog, user_message, language) ==
    LET lower_message == Lower(user_message)
        units_match ==
            \E k \in DOMAIN units_keywords :
                \A w \in DOMAIN units_keywords[k] :
                    Contains(lower_message, units_keywords[k][w])
    IN  IF role # STAFF THEN None
        ELSE IF units_match
        THEN IF language = "english" THEN fmt_en_units(catalog)
             ELSE fmt_ar_units(catalog)
        ELSE IF AnyKeyword(revenue_keywords, lower_message)
        THEN IF language = "english" THEN fmt_en_revenue(catalog)
             ELSE fmt_ar_revenue(catalog)
        ELSE IF AnyKeyword(best_seller_keywords, lower_message)
        THEN IF language = "english" THEN fmt_en_best(catalog)
             ELSE fmt_ar_best(catalog)
        ELSE None

\* _handle_staff_analytics(user_message, language)
handle_staff_analytics(role, catalog, user_message, language) ==
    LET lower_message == Lower(user_message)
        units_match ==
            \E k \in DOMAIN units_keywords :
                \A w \in DOMAIN units_keywords[k] :
                    Contains(lower_message, units_keywords[k][w])
    IN  IF role # STAFF THEN None
        ELSE IF AnyKeyword(revenue_keywords, lower_message)
        THEN IF language = "english" THEN fmt_en_revenue(catalog)
             ELSE fmt_ar_revenue(catalog)
        ELSE IF units_match
        THEN IF language = "english" THEN fmt_en_units(catalog)
             ELSE fmt_ar_units(catalog)
        ELSE IF AnyKeyword(best_seller_keywords, lower_message)
        THEN IF language = "english" THEN fmt_en_best(catalog)
             ELSE fmt_ar_best(catalog)
        ELSE None

\* Variant of checks: the attribute check is consulted before the topic check.
checks_attribute_first(role, policies, catalog, user_message) ==
    LET user_language == detect_language(user_message)
        role_check == check_staff_only_request(role, user_message)
        attribute_check == check_attribute_access(role, policies, user_message)
        analytics_response ==
            handle_staff_analytics(role, catalog, user_message, user_language)
        Decided(d, r) ==
            [decided |-> d, response |-> r, user_language |-> user_language]
    IN  IF Truthy(attribute_check) THEN Decided("attribute_check", attribute_check)
        ELSE IF Truthy(role_check) THEN Decided("role_check", role_check)
        ELSE IF /\ AnyKeyword(report_keywords, Lower(user_message))
                /\ role = STAFF
        THEN Decided("sales_report", None)
        ELSE IF Truthy(analytics_response)
        THEN Decided("analytics_response", analytics_response)
        ELSE Decided("delegate", None)

\* process_message, lines 316-337: the checks made before the external model
\* is called.  Yields the check that decides and the response it gives (the
\* report is written when the clock is read, in respond).
checks(role, policies, catalog, user_message) ==
    LET user_language == detect_language(user_message)
        role_check == check_staff_only_request(role, user_message)
        attribute_check == check_attribute_access(role, policies, user_message)
        analytics_response ==
            handle_staff_analytics(role, catalog, user_message, user_language)
        Decided(d, r) ==
            [decided |-> d, response |-> r, user_language |-> user_language]
    IN  IF Truthy(role_check) THEN Decided("role_check", role_check)
        ELSE IF Truthy(attribute_check) THEN Decided("attribute_check", attribute_check)
        ELSE IF /\ AnyKeyword(report_keywords, Lower(user_message))
                /\ role = STAFF
        THEN Decided("sales_report", None)
        ELSE IF Truthy(analytics_response)
        THEN Decided("analytics_response", analytics_response)
        ELSE Decided("delegate", None)

\* checks, evaluated once for each session and message explored.
checks_table ==
    [role \in UserRole |->
        [catalog \in Catalogs |->
            [user_message \in Messages |->
                checks(role, build_attribute_policies, catalog, user_message)]]]

\* checks(role, policies, catalog, user_message), looked up when tabulated.
checked(role, policies, catalog, user_message) ==
    IF /\ policies = build_attribute_policies
       /\ catalog \in Catalogs
       /\ user_message \in Messages
    THEN checks_table[role][catalog][user_message]
    ELSE checks(role, policies, catalog, user_message)

\* Variant of get_ai_response: the prior turns are the conversation history
\* with the current message already in it (the [:-1] of lines 350 and 364
\* left out).
get_ai_response_with_current(prompt, user_message, history, outcome) ==
    [system_prompt |-> prompt,
     conversation_history |->
        Append(history, [role |-> "user", content |-> user_message]),
     user_message |-> user_message,
     outcome |-> outcome]

\* One call of _get_ai_response: the system prompt, the prior turns and the
\* final user turn of the messages list it sends, and what the external
\* model did with it.
get_ai_response(prompt, user_message, history, outcome) ==
    [system_prompt |-> prompt,
     conversation_history |-> history,
     user_message |-> user_message,
     outcome |-> outcome]

\* The user turn of the corrective call (lines 356-363).
restate_message(user_language, user_message) ==
    (IF user_language = "english" THEN RESTATE_EN ELSE RESTATE_AR)
    \o QUESTION_PREFIX \o user_message

\* Variant of kept_response: the first reply is kept whatever its language.
first_response(user_language, o1, o2) == o1.text

\* The response kept after lines 347-365: the first reply, or the corrective
\* reply when the first one was in the other language.
kept_response(user_language, o1, o2) ==
    IF detect_language(o1.text) # user_language THEN o2.text ELSE o1.text

\* APOLOGY_AR is the apology put in Arabic, "عذراً، أواجه صعوبات تقنية. يرجى المحاولة مرة أخرى."
APOLOGY_AR ==
    <<1593, 1584, 1585, 1575, 1611, 1548, 32, 1571, 1608, 1575, 1580, 1607, 32, 1589, 1593,
     1608, 1576, 1575, 1578, 32, 1578, 1602, 1606, 1610, 1577, 46, 32, 1610, 1585, 1580,
     1609, 32, 1575, 1604, 1605, 1581, 1575, 1608, 1604, 1577, 32, 1605, 1585, 1577, 32,
     1571, 1582, 1585, 1609, 46>>

\* Variant of error_response: the apology follows the language of the message.
error_response_localized(user_language) ==
    IF user_language = "arabic" THEN APOLOGY_AR ELSE APOLOGY

\* The text returned by the except branch (lines 375-378).
error_response(user_language) == APOLOGY

\* The external model was not called.
NO_CALL == [kind |-> "none", text |-> <<>>]

\* Variant of respond: a rejection is recorded in the conversation history
\* like an analytics answer.
respond_recording_rejections(self, user_message, check, o1, o2, now) ==
    LET user_language == check.user_language
        with_user ==
            Append(self.conversation_history,
                   [role |-> "user", content |-> user_message])
        prior == SubSeq(with_user, 1, Len(with_user) - 1)
        first == get_ai_response(self.system_prompt, user_message, prior, o1)
        second ==
            get_ai_response(self.system_prompt,
                            restate_message(user_language, user_message), prior, o2)
        response == kept_response(user_language, o1, o2)
        Out(r, p, h, c) ==
            [result |-> r, path |-> p, conversation_history |-> h, calls |-> c]
    IN  IF check.decided \in {"role_check", "attribute_check"}
        THEN Out(Return(check.response), check.decided,
                 self.conversation_history
                 \o << [role |-> "user", content |-> user_message],
                       [role |-> "assistant", content |-> check.response] >>,
                 <<>>)
        ELSE IF check.decided = "sales_report"
        THEN Out(generate_sales_report(self.products, now), "sales_report",
                 self.conversation_history, <<>>)
        ELSE IF check.decided = "analytics_response"
        THEN Out(Return(check.response), "analytics_response",
                 self.conversation_history
                 \o << [role |-> "user", content |-> user_message],
                       [role |-> "assistant", content |-> check.response] >>,
                 <<>>)
        ELSE IF o1.kind # "reply"
        THEN Out(Return(error_response(user_language)), "except", with_user, <<first>>)
        ELSE IF detect_language(o1.text) = user_language
        THEN Out(Return(response), "response",
                 Append(with_user, [role |-> "assistant", content |-> response]),
                 <<first>>)
        ELSE IF o2.kind # "reply"
        THEN Out(Return(error_response(user_language)), "except", with_user,
                 <<first, second>>)
        ELSE Out(Return(response), "response",
                 Append(with_user, [role |-> "assistant", content |-> response]),
                 <<first, second>>)

\* Variant of respond: a failed first call is followed by a second call.
respond_retry_on_failure(self, user_message, check, o1, o2, now) ==
    LET user_language == check.user_language
        with_user ==
            Append(self.conversation_history,
                   [role |-> "user", content |-> user_message])
        prior == SubSeq(with_user, 1, Len(with_user) - 1)
        first == get_ai_response(self.system_prompt, user_message, prior, o1)
        second ==
            get_ai_response(self.system_prompt,
                            restate_message(user_language, user_message), prior, o2)
        response == kept_response(user_language, o1, o2)
        Out(r, p, h, c) ==
            [result |-> r, path |-> p, conversation_history |-> h, calls |-> c]
    IN  IF check.decided \in {"role_check", "attribute_check"}
        THEN Out(Return(check.response), check.decided, self.conversation_history, <<>>)
        ELSE IF check.decided = "sales_report"
        THEN Out(generate_sales_report(self.products, now), "sales_report",
                 self.conversation_history, <<>>)
        ELSE IF check.decided = "analytics_response"
        THEN Out(Return(check.response), "analytics_response",
                 self.conversation_history
                 \o << [role |-> "user", content |-> user_message],
                       [role |-> "assistant", content |-> check.response] >>,
                 <<>>)
        ELSE IF o1.kind # "reply" /\ o2.kind # "reply"
        THEN Out(Return(error_response(user_language)), "except", with_user,
                 <<first, second>>)
        ELSE IF o1.kind # "reply"
        THEN Out(Return(o2.text), "response",
                 Append(with_user, [role |-> "assistant", content |-> o2.text]),
                 <<first, second>>)
        ELSE IF detect_language(o1.text) = user_language
        THEN Out(Return(response), "response",
                 Append(with_user, [role |-> "assistant", content |-> response]),
                 <<first>>)
        ELSE IF o2.kind # "reply"
        THEN Out(Return(error_response(user_language)), "except", with_user,
                 <<first, second>>)
        ELSE Out(Return(response), "response",
                 Append(with_user, [role |-> "assistant", content |-> response]),
                 <<first, second>>)

\* process_message(user_message) once the checks are made.  o1 and o2 are
\* what the external model does on the first and on the corrective call,
\* now is the clock read by the report.  Yields what the call hands back,
\* the statement it ends at, the conversation history it leaves and the
\* calls of the external model it made.
respond(self, user_message, check, o1, o2, now) ==
    LET user_language == check.user_language
        with_user ==
            Append(self.conversation_history,
                   [role |-> "user", content |-> user_message])
        prior == SubSeq(with_user, 1, Len(with_user) - 1)
        first == get_ai_response(self.system_prompt, user_message, prior, o1)
        second ==
            get_ai_response(self.system_prompt,
                            restate_message(user_language, user_message), prior, o2)
        response == kept_response(user_language, o1, o2)
        Out(r, p, h, c) ==
            [result |-> r, path |-> p, conversation_history |-> h, calls |-> c]
    IN  IF check.decided \in {"role_check", "attribute_check"}
        THEN Out(Return(check.response), check.decided, self.conversation_history, <<>>)
        ELSE IF check.decided = "sales_report"
        THEN Out(generate_sales_report(self.products, now), "sales_report",
                 self.conversation_history, <<>>)
        ELSE IF check.decided = "analytics_response"
        THEN Out(Return(check.response), "analytics_response",
                 self.conversation_history
                 \o << [role |-> "user", content |-> user_message],
                       [role |-> "assistant", content |-> check.response] >>,
                 <<>>)
        ELSE IF o1.kind # "reply"
        THEN Out(Return(error_response(user_language)), "except", with_user, <<first>>)
        ELSE IF detect_language(o1.text) = user_language
        THEN Out(Return(response), "response",
                 Append(with_user, [role |-> "assistant", content |-> response]),
                 <<first>>)
        ELSE IF o2.kind # "reply"
        THEN Out(Return(error_response(user_language)), "except", with_user,
                 <<first, second>>)
        ELSE Out(Return(response), "response",
                 Append(with_user, [role |-> "assistant", content |-> response]),
                 <<first, second>>)

\* process_message(user_message)
process_message_result(self, user_message, o1, o2, now) ==
    respond(self, user_message,
            checked(self.user_role, self.attribute_policies, self.products,
                    user_message),
            o1, o2, now)

\* What the environment decides during process_message(user_message): the
\* clock if the report reads it, and the external model's answer to each
\* call that is made.
clock_values(check) ==
    IF check.decided = "sales_report" THEN Timestamps ELSE {TS_1}

first_outcomes(check) ==
    IF check.decided = "delegate" THEN GatewayOutcomes ELSE {NO_CALL}

second_outcomes(check, o1) ==
    IF o1.kind = "reply" /\ detect_language(o1.text) # check.user_language
    THEN GatewayOutcomes
    ELSE {NO_CALL}

\* get_session_info()
session_info(self) ==
    [role |-> self.user_role,
     messages_count |-> Len(self.conversation_history),
     products_available |-> Len(self.products)]

(***************************************************************************)
(* State: the fields of one ProductChatbot, and the last call made on it.  *)
(***************************************************************************)
VARIABLES
    products,               \* self.products
    user_role,              \* self.user_role
    conversation_history,   \* self.conversation_history
    attribute_policies,     \* self.attribute_policies
    system_prompt,          \* self.system_prompt
    op,                     \* the method called last
    arg,                    \* its argument
    result,                 \* what it handed back
    path,                   \* the statement process_message ended at
    calls,                  \* its calls of the external model, in order
    pre,                    \* user_role and conversation_history before it
    session_state           \* st.session_state of the web interface

vars ==
    << products, user_role, conversation_history, attribute_policies,
       system_prompt, op, arg, result, path, calls, pre, session_state >>

Self ==
    [products |-> products, user_role |-> user_role,
     conversation_history |-> conversation_history,
     attribute_policies |-> attribute_policies, system_prompt |-> system_prompt]

\* The fields a call can change, as they are when it starts.
Before ==
    [user_role |-> user_role, conversation_history |-> conversation_history]

\* st.session_state when the page is first run (src/simple-ui.py:77-84): no
\* chatbot is stored yet.
new_session_state ==
    [chatbot |-> FALSE, messages |-> <<>>, api_key |-> <<>>,
     initialized |-> FALSE, user_role |-> "customer"]

\* __init__: the catalog is whatever the products file holds.  The session
\* state of the web interface is left alone by every method of the chatbot.
Init ==
    /\ products \in Catalogs
    /\ user_role = CUSTOMER
    /\ conversation_history = <<>>
    /\ attribute_policies = build_attribute_policies
    /\ system_prompt = create_system_prompt(products)
    /\ op = "__init__"
    /\ arg = <<>>
    /\ result = Return(None)
    /\ path = "none"
    /\ calls = <<>>
    /\ pre = [user_role |-> CUSTOMER, conversation_history |-> <<>>]
    /\ session_state = new_session_state

process_message ==
    /\ Len(conversation_history) < MaxHistory
    /\ \E user_message \in Messages :
        LET check == checked(user_role, attribute_policies, products, user_message)
        IN  \E now \in clock_values(check), o1 \in first_outcomes(check) :
                \E o2 \in second_outcomes(check, o1) :
                    LET r == respond(Self, user_message, check, o1, o2, now)
                    IN  /\ conversation_history' = r.conversation_history
                        /\ op' = "process_message"
                        /\ arg' = user_message
                        /\ result' = r.result
                        /\ path' = r.path
                        /\ calls' = r.calls
    /\ pre' = Before
    /\ UNCHANGED <<session_state, products, user_role, attribute_policies, system_prompt>>

\* Variant of set_user_role: the conversation history is emptied along with
\* the change of role.
set_user_role_and_reset ==
    /\ \E role_text \in RoleInputs :
        /\ user_role' = set_user_role_value(role_text)
        /\ arg' = role_text
    /\ conversation_history' = <<>>
    /\ op' = "set_user_role"
    /\ result' = Return(None)
    /\ path' = "none"
    /\ calls' = <<>>
    /\ pre' = Before
    /\ UNCHANGED <<session_state, products, attribute_policies, system_prompt>>

set_user_role ==
    /\ \E role_text \in RoleInputs :
        /\ user_role' = set_user_role_value(role_text)
        /\ arg' = role_text
    /\ op' = "set_user_role"
    /\ result' = Return(None)
    /\ path' = "none"
    /\ calls' = <<>>
    /\ pre' = Before
    /\ UNCHANGED <<session_state, products, conversation_history, attribute_policies, system_prompt>>

\* Variant of reset_conversation: the role goes back to its default as well.
reset_session ==
    /\ conversation_history' = <<>>
    /\ user_role' = CUSTOMER
    /\ op' = "reset_conversation"
    /\ arg' = <<>>
    /\ result' = Return(None)
    /\ path' = "none"
    /\ calls' = <<>>
    /\ pre' = Before
    /\ UNCHANGED <<session_state, products, attribute_policies, system_prompt>>

reset_conversation ==
    /\ conversation_history' = <<>>
    /\ op' = "reset_conversation"
    /\ arg' = <<>>
    /\ result' = Return(None)
    /\ path' = "none"
    /\ calls' = <<>>
    /\ pre' = Before
    /\ UNCHANGED <<session_state, products, user_role, attribute_policies, system_prompt>>

get_session_info ==
    /\ op' = "get_session_info"
    /\ arg' = <<>>
    /\ result' = Return(session_info(Self))
    /\ path' = "none"
    /\ calls' = <<>>
    /\ pre' = Before
    /\ UNCHANGED <<session_state, products, user_role, conversation_history, attribute_policies,
                   system_prompt>>

Next ==
    \/ process_message
    \/ set_user_role
    \/ reset_conversation
    \/ get_session_info

Spec == Init /\ [][Next]_vars

(***************************************************************************)
(* The same session followed one exchange further: process_message is      *)
(* also called on a conversation history of MaxHistory entries, so that a  *)
(* recorded exchange is passed on as prior turns.                          *)
(***************************************************************************)
process_message_on_history ==
    /\ Len(conversation_history) <= MaxHistory
    /\ \E user_message \in Messages :
        LET check == checked(user_role, attribute_policies, products, user_message)
        IN  \E now \in clock_values(check), o1 \in first_outcomes(check) :
                \E o2 \in second_outcomes(check, o1) :
                    LET r == respond(Self, user_message, check, o1, o2, now)
                    IN  /\ conversation_history' = r.conversation_history
                        /\ op' = "process_message"
                        /\ arg' = user_message
                        /\ result' = r.result
                        /\ path' = r.path
                        /\ calls' = r.calls
    /\ pre' = Before
    /\ UNCHANGED <<session_state, products, user_role, attribute_policies, system_prompt>>

HistoryNext ==
    \/ process_message_on_history
    \/ set_user_role
    \/ reset_conversation
    \/ get_session_info

HistorySpec == Init /\ [][HistoryNext]_vars

(***************************************************************************)
(* detect_language on its own: every text over a small alphabet.           *)
(***************************************************************************)
\* "a", "Z", a space, the Arabic letter beh, and the two characters outside
\* ASCII whose str.lower() starts with an ASCII letter: U+0130 and U+212A.
Alphabet == {97, 90, 32, 1576, 304, 8490}

Texts == UNION { [1..k -> Alphabet] : k \in 0..MaxLen }

\* detect_language(text)
detect_language_call ==
    /\ \E text \in Texts :
        /\ arg' = text
        /\ result' = Return(detect_language(text))
    /\ op' = "detect_language"
    /\ path' = "none"
    /\ calls' = <<>>
    /\ pre' = Before
    /\ UNCHANGED <<session_state, products, user_role, conversation_history, attribute_policies,
                   system_prompt>>

DetectNext == detect_language_call

DetectSpec == Init /\ [][DetectNext]_vars

(***************************************************************************)
(* The web interface of src/simple-ui.py.  Each action is one run of the   *)
(* page script after one event: a change of the role selector or the click *)
(* of one button.  The chatbot stored in st.session_state is the chatbot   *)
(* of the variables above; session_state.chatbot says whether one is       *)
(* stored.                                                                 *)
(***************************************************************************)
\* STATS_HEAD is the text "\n**Sales Statistics:**\n- Total Products: "
STATS_HEAD ==
    <<10, 42, 42, 83, 97, 108, 101, 115, 32, 83, 116, 97, 116, 105, 115, 116, 105, 99, 115,
     58, 42, 42, 10, 45, 32, 84, 111, 116, 97, 108, 32, 80, 114, 111, 100, 117, 99, 116,
     115, 58, 32>>

\* STATS_TOTAL_UNITS is the text "\n- Total Units Sold: "
STATS_TOTAL_UNITS ==
    <<10, 45, 32, 84, 111, 116, 97, 108, 32, 85, 110, 105, 116, 115, 32, 83, 111, 108, 100,
     58, 32>>

\* STATS_TOTAL_REVENUE is the text "\n- Total Revenue: $"
STATS_TOTAL_REVENUE ==
    <<10, 45, 32, 84, 111, 116, 97, 108, 32, 82, 101, 118, 101, 110, 117, 101, 58, 32, 36>>

\* STATS_AVERAGE is the text "\n- Average Price: $"
STATS_AVERAGE ==
    <<10, 45, 32, 65, 118, 101, 114, 97, 103, 101, 32, 80, 114, 105, 99, 101, 58, 32, 36>>

\* STATS_END is the text "\n                    "
STATS_END ==
    <<10, 32, 32, 32, 32, 32, 32, 32, 32, 32, 32, 32, 32, 32, 32, 32, 32, 32, 32, 32, 32>>

\* SK_PREFIX is the text "sk-"
SK_PREFIX ==
    <<115, 107, 45>>

\* REPORT_REQUEST is the text "Generate a sales report"
REPORT_REQUEST ==
    <<71, 101, 110, 101, 114, 97, 116, 101, 32, 97, 32, 115, 97, 108, 101, 115, 32, 114,
     101, 112, 111, 114, 116>>

\* KEY_EMPTY is the text ""
KEY_EMPTY ==
    <<>>

\* KEY_INVALID is the text "my-key"
KEY_INVALID ==
    <<109, 121, 45, 107, 101, 121>>

\* KEY_VALID is the text "sk-test"
KEY_VALID ==
    <<115, 107, 45, 116, 101, 115, 116>>


\* UI_BLANK is the text "  \n"
UI_BLANK ==
    <<32, 32, 10>>


\* Bound on the number of entries of st.session_state.messages.
MaxMessages == 4

\* The characters str.strip() removes among those of the sample inputs.
Whitespace == {9, 10, 11, 12, 13, 32}

\* str.strip()
RECURSIVE strip(_)
strip(text) ==
    IF text = <<>> THEN <<>>
    ELSE IF Head(text) \in Whitespace THEN strip(Tail(text))
    ELSE IF text[Len(text)] \in Whitespace THEN strip(SubSeq(text, 1, Len(text) - 1))
    ELSE text

\* str.startswith(prefix)
startswith(text, prefix) ==
    /\ Len(prefix) <= Len(text)
    /\ SubSeq(text, 1, Len(prefix)) = prefix

\* The texts typed into the API key field.
ApiKeyInputs == {KEY_EMPTY, KEY_INVALID, KEY_VALID}

\* The texts typed into the question area.
UserInputs == {MSG_EMPTY, UI_BLANK, MSG_PRICE_EN, MSG_UNITS_SOLD, MSG_SALES_REPORT}

\* The options of the role selector; each is passed to set_user_role as text.
RoleOptions == {"customer", "staff"}

option_text(role) == IF role = "customer" THEN VALUE_CUSTOMER ELSE VALUE_STAFF

\* One entry of st.session_state.messages.
message_entry(role, content) == [role |-> role, content |-> content]

\* The chat area and its buttons are drawn.
connected == session_state.initialized /\ session_state.chatbot

\* load_chatbot(api_key): TRUE when a chatbot is returned.  built says
\* whether ProductChatbot(...) returned without raising.
load_chatbot(api_key, built) == startswith(api_key, SK_PREFIX) /\ built

\* f"{total_revenue/len(products):,.2f}" in cents, rounded to the nearest
\* cent (the sample catalogs have three products, so no amount is half a cent).
average_price(catalog) ==
    (2 * total_revenue(catalog) + Len(catalog)) \div (2 * Len(catalog))

\* The text of the "Show Product Stats" button.
product_stats(catalog) ==
    IF catalog = <<>> THEN Raise("ZeroDivisionError")
    ELSE Return(STATS_HEAD \o Digits(Len(catalog))
                \o STATS_TOTAL_UNITS \o Digits(total_units(catalog))
                \o STATS_TOTAL_REVENUE \o Money(total_revenue(catalog))
                \o STATS_AVERAGE \o Money(average_price(catalog))
                \o STATS_END)

\* The role selector is changed: st.session_state.user_role = role.
select_role ==
    /\ \E role \in RoleOptions :
        /\ role # session_state.user_role
        /\ session_state' = [session_state EXCEPT !.user_role = role]
        /\ arg' = option_text(role)
    /\ op' = "select_role"
    /\ result' = Return(None)
    /\ path' = "none"
    /\ calls' = <<>>
    /\ pre' = Before
    /\ UNCHANGED <<products, user_role, conversation_history, attribute_policies,
                   system_prompt>>

\* "Connect to Chatbot" is clicked.
connect_to_chatbot ==
    /\ \E api_key_input \in ApiKeyInputs, built \in BOOLEAN :
        /\ arg' = api_key_input
        /\ IF api_key_input # <<>> /\ load_chatbot(api_key_input, built)
           THEN /\ session_state' = [session_state EXCEPT !.chatbot = TRUE,
                                                          !.initialized = TRUE]
                /\ user_role' = set_user_role_value(option_text(session_state.user_role))
                /\ conversation_history' = <<>>
                /\ attribute_policies' = build_attribute_policies
                /\ system_prompt' = create_system_prompt(products)
                /\ result' = Return(None)
           ELSE /\ result' = Raise("st.error")
                /\ UNCHANGED <<session_state, user_role, conversation_history,
                               attribute_policies, system_prompt>>
    /\ op' = "connect"
    /\ path' = "none"
    /\ calls' = <<>>
    /\ pre' = Before
    /\ UNCHANGED products

\* "Send" is clicked with a question that is not blank.
send ==
    /\ connected
    /\ Len(conversation_history) < MaxHistory
    /\ Len(session_state.messages) + 2 <= MaxMessages
    /\ \E user_input \in UserInputs :
        /\ strip(user_input) # <<>>
        /\ LET check == checked(user_role, attribute_policies, products, user_input)
           IN  \E now \in clock_values(check), o1 \in first_outcomes(check) :
                   \E o2 \in second_outcomes(check, o1) :
                       LET r == respond(Self, user_input, check, o1, o2, now)
                           asked == Append(session_state.messages,
                                           message_entry("user", user_input))
                       IN  /\ conversation_history' = r.conversation_history
                           /\ session_state' =
                                 [session_state EXCEPT !.messages =
                                     IF r.result.raised THEN asked
                                     ELSE Append(asked,
                                                 message_entry("assistant", r.result.value))]
                           /\ arg' = user_input
                           /\ result' = r.result
                           /\ path' = r.path
                           /\ calls' = r.calls
    /\ op' = "send"
    /\ pre' = Before
    /\ UNCHANGED <<products, user_role, attribute_policies, system_prompt>>

\* "Clear" is clicked.
clear ==
    /\ connected
    /\ session_state' = [session_state EXCEPT !.messages = <<>>]
    /\ conversation_history' = <<>>
    /\ op' = "clear"
    /\ arg' = <<>>
    /\ result' = Return(None)
    /\ path' = "none"
    /\ calls' = <<>>
    /\ pre' = Before
    /\ UNCHANGED <<products, user_role, attribute_policies, system_prompt>>

\* "Generate Sales Report" is clicked; the button is drawn when the selected
\* role is staff.
generate_sales_report_button ==
    /\ connected
    /\ session_state.user_role = "staff"
    /\ Len(session_state.messages) + 2 <= MaxMessages
    /\ \E now \in Timestamps :
        LET response == generate_sales_report(products, now)
        IN  /\ result' = response
            /\ session_state' =
                  [session_state EXCEPT !.messages =
                      IF response.raised THEN @
                      ELSE @ \o << message_entry("user", REPORT_REQUEST),
                                   message_entry("assistant", response.value) >>]
    /\ op' = "generate_sales_report"
    /\ arg' = <<>>
    /\ path' = "none"
    /\ calls' = <<>>
    /\ pre' = Before
    /\ UNCHANGED <<products, user_role, conversation_history, attribute_policies,
                   system_prompt>>

\* "Show Product Stats" is clicked; drawn next to "Generate Sales Report".
show_product_stats_button ==
    /\ connected
    /\ session_state.user_role = "staff"
    /\ Len(session_state.messages) + 1 <= MaxMessages
    /\ LET stats == product_stats(products)
       IN  /\ result' = stats
           /\ session_state' =
                 [session_state EXCEPT !.messages =
                     IF stats.raised THEN @
                     ELSE Append(@, message_entry("assistant", stats.value))]
    /\ op' = "show_product_stats"
    /\ arg' = <<>>
    /\ path' = "none"
    /\ calls' = <<>>
    /\ pre' = Before
    /\ UNCHANGED <<products, user_role, conversation_history, attribute_policies,
                   system_prompt>>

UINext ==
    \/ select_role
    \/ connect_to_chatbot
    \/ send
    \/ clear
    \/ generate_sales_report_button
    \/ show_product_stats_button

UISpec == Init /\ [][UINext]_vars

(***************************************************************************)
(* Properties.  Each is stated over the last call made (op, arg, result,   *)
(* path, calls) and the session before it (pre).                           *)
(***************************************************************************)
\* The rejection texts in the language detected for a message.
topic_rejection_for(user_message) ==
    IF detect_language(user_message) = "arabic"
    THEN TOPIC_REJECTION_AR ELSE TOPIC_REJECTION_EN

attribute_rejection_for(user_message) ==
    IF detect_language(user_message) = "arabic"
    THEN ATTRIBUTE_REJECTION_AR ELSE ATTRIBUTE_REJECTION_EN

\* A keyword of a staff_only entry of the attribute policies occurs in the
\* lowercased message.
RestrictedKeywordIn(user_message) ==
    \E k \in DOMAIN attribute_policies :
        /\ attribute_policies[k].staff_only
        /\ AnyKeyword(attribute_policies[k].keywords, Lower(user_message))

\* A staff-topic keyword occurs in the lowercased message.
StaffTopicIn(user_message) == AnyKeyword(staff_keywords, Lower(user_message))

\* The last call was process_message made by a Customer.
CustomerAsked == op = "process_message" /\ pre.user_role = CUSTOMER

\* C1: for a Customer, every message that contains a staff-topic keyword in
\* its lowercased form gets the staff-only topic rejection in the language
\* detected for the message, and the external model is not called; this is
\* so also when the message contains a restricted-attribute keyword.
C1_TopicGateFirst ==
    CustomerAsked /\ StaffTopicIn(arg) =>
        /\ result = Return(topic_rejection_for(arg))
        /\ calls = <<>>

\* A Customer sent an Arabic message holding both a staff-topic keyword and
\* a restricted-attribute keyword, and got the Arabic topic rejection.
C1_Witness ==
    /\ CustomerAsked
    /\ arg = MSG_SALES_REPORT_AR
    /\ StaffTopicIn(arg)
    /\ RestrictedKeywordIn(arg)
    /\ result = Return(TOPIC_REJECTION_AR)
    /\ calls = <<>>

C3_NoExceptionEscapes ==
    op = "process_message" => ~result.raised

\* The texts the analytics methods write for a catalog.
IsAnalyticsOutput(text, catalog) ==
    \/ text \in { fmt_en_revenue(catalog), fmt_ar_revenue(catalog),
                  fmt_en_units(catalog), fmt_ar_units(catalog),
                  fmt_en_best(catalog), fmt_ar_best(catalog) }
    \/ /\ catalog # <<>>
       /\ \E now \in Timestamps : text = generate_sales_report(catalog, now).value

\* Two catalogs that differ in units_sold at most.
SameButUnitsSold(c1, c2) ==
    /\ Len(c1) = Len(c2)
    /\ \A i \in DOMAIN c1 :
        [c1[i] EXCEPT !.units_sold = 0] = [c2[i] EXCEPT !.units_sold = 0]

\* What the external model did on the k-th call of the last process_message.
outcome_of(k) == IF k <= Len(calls) THEN calls[k].outcome ELSE NO_CALL

\* The session the last call started from, with another catalog loaded.
SessionBeforeWith(catalog) ==
    [products |-> catalog, user_role |-> pre.user_role,
     conversation_history |-> pre.conversation_history,
     attribute_policies |-> attribute_policies,
     system_prompt |-> create_system_prompt(catalog)]

\* C4: what a Customer gets from process_message is a topic rejection, an
\* attribute rejection, a reply of the external model or the apology, never
\* a text of the analytics methods; and with any catalog that differs in
\* units_sold only, and the external model behaving the same, the same
\* message gets the same response.
C4_CustomerGetsNoAnalytics ==
    CustomerAsked =>
        /\ ~result.raised
        /\ \/ calls = <<>> /\ result.value = topic_rejection_for(arg)
           \/ calls = <<>> /\ result.value = attribute_rejection_for(arg)
           \/ /\ calls # <<>>
              /\ outcome_of(Len(calls)).kind = "reply"
              /\ result.value = outcome_of(Len(calls)).text
           \/ /\ calls # <<>>
              /\ outcome_of(Len(calls)).kind = "error"
              /\ result.value = APOLOGY
        /\ path \notin {"sales_report", "analytics_response"}
        /\ ~IsAnalyticsOutput(result.value, products)
        /\ \A other \in Catalogs :
            SameButUnitsSold(products, other) =>
                process_message_result(SessionBeforeWith(other), arg,
                                       outcome_of(1), outcome_of(2), TS_1).result
                = result

\* A Customer asked for the best-selling product in words no rejection is
\* keyed on, over a catalog whose units_sold matter, and got the external
\* model's reply.
C4_Witness ==
    /\ CustomerAsked
    /\ arg = MSG_TOP_PRODUCT_AR
    /\ products # <<>>
    /\ \E other \in Catalogs : other # products /\ SameButUnitsSold(products, other)
    /\ Len(calls) = 1
    /\ result = Return(REPLY_AR)

\* C5: the text process_message returns is detected as the language of the
\* message, on every path.
C5_ResponseInInputLanguage ==
    op = "process_message" /\ ~result.raised =>
        detect_language(result.value) = detect_language(arg)

\* A transcript of user and assistant entries in turn, starting with a user
\* entry and ending with an assistant entry.
Alternates(history) ==
    /\ Len(history) % 2 = 0
    /\ \A i \in DOMAIN history :
        history[i].role = IF i % 2 = 1 THEN "user" ELSE "assistant"

\* C6: between calls the transcript alternates user, assistant, starting
\* with a user entry, and its length is even.
C6_TranscriptAlternates == Alternates(conversation_history)

\* C7: when a call of the external model fails during process_message, the
\* first or the corrective one, process_message returns the fixed English
\* apology, whatever the language of the message, and raises nothing.
C7_ApologyOnGatewayFailure ==
    op = "process_message" /\ (\E k \in DOMAIN calls : outcome_of(k).kind = "error") =>
        /\ result = Return(APOLOGY)
        /\ detect_language(result.value) = "english"

\* An Arabic message whose corrective call failed got the English apology.
C7_Witness ==
    /\ op = "process_message"
    /\ detect_language(arg) = "arabic"
    /\ Len(calls) = 2
    /\ outcome_of(1).kind = "reply"
    /\ outcome_of(2).kind = "error"
    /\ result = Return(APOLOGY)

\* The first reply of the last process_message was in another language than
\* the message.
FirstReplyInOtherLanguage ==
    /\ op = "process_message"
    /\ calls # <<>>
    /\ outcome_of(1).kind = "reply"
    /\ detect_language(outcome_of(1).text) # detect_language(arg)

\* C8: when the first reply is in another language than the message, a
\* corrective call is made; when its reply is in the language of the
\* message, process_message returns that second reply, and the transcript
\* gains one user entry, the message as sent, and one assistant entry, the
\* second reply.
C8_CorrectiveReplyKept ==
    FirstReplyInOtherLanguage =>
        /\ Len(calls) = 2
        /\ calls[2].user_message = restate_message(detect_language(arg), arg)
        /\ ( /\ outcome_of(2).kind = "reply"
             /\ detect_language(outcome_of(2).text) = detect_language(arg) ) =>
                /\ result = Return(outcome_of(2).text)
                /\ conversation_history =
                       pre.conversation_history
                       \o << [role |-> "user", content |-> arg],
                             [role |-> "assistant", content |-> outcome_of(2).text] >>

\* An English message got an Arabic reply first and an English reply to the
\* corrective call.
C8_Witness ==
    /\ FirstReplyInOtherLanguage
    /\ arg = MSG_PRICE_EN
    /\ outcome_of(1).text = REPLY_AR
    /\ outcome_of(2).kind = "reply"
    /\ outcome_of(2).text = REPLY_EN
    /\ result = Return(REPLY_EN)
    /\ Len(conversation_history) = Len(pre.conversation_history) + 2

\* C9: reset_conversation empties the transcript and leaves the role, the
\* catalog and the system prompt as they are; get_session_info right after
\* it reports no messages, and the role and number of products of before.
C9_ResetClearsTranscriptOnly ==
    [][ /\ op' = "reset_conversation" =>
            /\ conversation_history' = <<>>
            /\ UNCHANGED <<user_role, products, system_prompt, attribute_policies>>
        /\ (op = "reset_conversation" /\ op' = "get_session_info") =>
            result' = Return([role |-> pre.user_role,
                              messages_count |-> 0,
                              products_available |-> Len(products)])
      ]_vars

\* A Staff session with a transcript was reset.
C9_Witness ==
    /\ op = "reset_conversation"
    /\ pre.conversation_history # <<>>
    /\ pre.user_role = STAFF
    /\ user_role = STAFF
    /\ products # <<>>
    /\ conversation_history = <<>>

\* text is value with some of its letters in upper case.
CaseVariant(text, value) ==
    /\ Len(text) = Len(value)
    /\ \A i \in DOMAIN value : text[i] = value[i] \/ text[i] = value[i] - 32

\* C10: the role is Customer or Staff; it is Customer at construction;
\* set_user_role with "customer" or "staff" in any letter case sets that
\* role, and with any other text sets Customer.
C10_RoleIsCustomerOrStaff ==
    /\ user_role \in UserRole
    /\ op = "__init__" => user_role = CUSTOMER
    /\ op = "set_user_role" =>
        user_role = IF CaseVariant(arg, VALUE_STAFF) THEN STAFF ELSE CUSTOMER

\* A Staff session was given a text that names no role and became Customer.
C10_Witness ==
    /\ op = "set_user_role"
    /\ arg = ROLE_ADMIN
    /\ pre.user_role = STAFF
    /\ user_role = CUSTOMER

\* The last call was process_message made by Staff.
StaffAsked == op = "process_message" /\ pre.user_role = STAFF

\* The four rejection texts.
RejectionTexts ==
    { TOPIC_REJECTION_EN, TOPIC_REJECTION_AR,
      ATTRIBUTE_REJECTION_EN, ATTRIBUTE_REJECTION_AR }

\* C11: for Staff the topic gate and the attribute gate both return None for
\* every message, and process_message never returns a rejection text.
C11_StaffNeverRejected ==
    StaffAsked =>
        /\ check_staff_only_request(pre.user_role, arg) = None
        /\ check_attribute_access(pre.user_role, attribute_policies, arg) = None
        /\ path \notin {"role_check", "attribute_check"}
        /\ result.raised \/ result.value \notin RejectionTexts

\* Staff sent a message holding a staff-topic keyword and a keyword of a
\* staff_only attribute, and got the analytics answer.
C11_Witness ==
    /\ StaffAsked
    /\ arg = MSG_TOTAL_REVENUE
    /\ StaffTopicIn(arg)
    /\ RestrictedKeywordIn(arg)
    /\ path = "analytics_response"
    /\ result = Return(fmt_en_revenue(products))

\* The families of keywords of the narrow analytics answers, as they occur
\* in the lowercased message.
RevenueFamilyIn(user_message) == AnyKeyword(revenue_keywords, Lower(user_message))

UnitsFamilyIn(user_message) ==
    \E k \in DOMAIN units_keywords :
        \A w \in DOMAIN units_keywords[k] :
            Contains(Lower(user_message), units_keywords[k][w])

BestSellerFamilyIn(user_message) ==
    AnyKeyword(best_seller_keywords, Lower(user_message))

\* 'report' or 'analytics' occurs in the lowercased message.
ReportKeywordIn(user_message) == AnyKeyword(report_keywords, Lower(user_message))

\* The last call was a Staff request that needs the best seller: the full
\* report, or a best-seller question no earlier family answers.
StaffNeededBestSeller ==
    /\ StaffAsked
    /\ \/ ReportKeywordIn(arg)
       \/ /\ BestSellerFamilyIn(arg)
          /\ ~RevenueFamilyIn(arg)
          /\ ~UnitsFamilyIn(arg)

\* C12: on an empty catalog, every Staff request that needs the best seller,
\* the full report included, yields the 'no products' text and does not fail.
C12_NoProductsSentinel ==
    StaffNeededBestSeller /\ products = <<>> =>
        /\ ~result.raised
        /\ \/ Contains(result.value, EN_NO_PRODUCTS)
           \/ Contains(result.value, AR_NO_PRODUCTS)

\* Sum of price * units_sold over the records of a catalog, in cents.
RevenueCents(catalog) ==
    LET upto[i \in 0..Len(catalog)] ==
            IF i = 0 THEN 0
            ELSE upto[i - 1] + catalog[i].price * catalog[i].units_sold
    IN  upto[Len(catalog)]

\* A text without characters of the Arabic block; a text without Latin
\* letters.
NoArabicCharacters(text) ==
    \A i \in DOMAIN text : text[i] < ARABIC_FIRST \/ text[i] > ARABIC_LAST

NoLatinLetters(text) ==
    \A i \in DOMAIN text : text[i] \notin (65..90) \cup (97..122)

\* C13: for Staff, a message of the revenue family that holds no report or
\* analytics keyword gets the revenue sentence with the sum of price *
\* units_sold over the catalog: the English template, free of Arabic
\* characters, for a message detected as English, and the Arabic template,
\* free of Latin letters, for one detected as Arabic.
C13_RevenueSentence ==
    StaffAsked /\ RevenueFamilyIn(arg) /\ ~ReportKeywordIn(arg) =>
        IF detect_language(arg) = "english"
        THEN /\ result = Return(EN_REVENUE_HEAD \o Money(RevenueCents(products))
                                \o EN_REVENUE_TAIL)
             /\ NoArabicCharacters(result.value)
        ELSE /\ result = Return(AR_REVENUE_HEAD \o Money(RevenueCents(products))
                                \o AR_REVENUE_TAIL)
             /\ NoLatinLetters(result.value)

\* Staff asked in Arabic over the catalog with units_sold 10, 50, 30 and got
\* the Arabic sentence with the figure 65,949.40.
C13_Witness ==
    /\ StaffAsked
    /\ arg = MSG_SALES_REPORT_AR
    /\ products = WithUnits(<<10, 50, 30>>)
    /\ result = Return(AR_REVENUE_HEAD
                       \o <<54, 53, 44, 57, 52, 57, 46, 52, 48>>
                       \o AR_REVENUE_TAIL)

\* The two counts C14 compares.
ArabicBlockCount(text) ==
    Cardinality({i \in DOMAIN text : text[i] \in ARABIC_FIRST..ARABIC_LAST})

AsciiLetterCount(text) ==
    Cardinality({i \in DOMAIN text : text[i] \in (65..90) \cup (97..122)})

\* C14: detect_language returns 'arabic' exactly when the text has more
\* characters of U+0600..U+06FF than ASCII letters, 'english' otherwise (on
\* equal counts and on the empty text too), and it never fails.
C14_DetectLanguage ==
    op = "detect_language" =>
        /\ ~result.raised
        /\ result.value = IF ArabicBlockCount(arg) > AsciiLetterCount(arg)
                          THEN "arabic" ELSE "english"

\* The orders in which n records can be listed, each exactly once.
ListingOrders(n) ==
    { order \in [1..n -> 1..n] : \A i, j \in 1..n : order[i] = order[j] => i = j }

\* order lists the records by non-increasing units_sold, records of equal
\* units_sold in catalog order.
InSalesOrder(catalog, order) ==
    \A i, j \in DOMAIN order :
        i < j =>
            \/ catalog[order[i]].units_sold > catalog[order[j]].units_sold
            \/ /\ catalog[order[i]].units_sold = catalog[order[j]].units_sold
               /\ order[i] < order[j]

\* top is the first record, in catalog order, with the maximum units_sold.
FirstMaximum(catalog, top) ==
    /\ \A j \in DOMAIN catalog : catalog[j].units_sold <= catalog[top].units_sold
    /\ \A j \in 1..(top - 1) : catalog[j].units_sold < catalog[top].units_sold

\* The sum of units_sold over a catalog.
UnitsSum(catalog) ==
    LET upto[i \in 0..Len(catalog)] ==
            IF i = 0 THEN 0 ELSE upto[i - 1] + catalog[i].units_sold
    IN  upto[Len(catalog)]

\* The report that names record top as top performer and lists the records
\* in the given order.
ReportWith(catalog, order, top, now) ==
    LET line(p) ==
            REPORT_ITEM \o p.name \o REPORT_ITEM_SEP \o Digits(p.units_sold)
            \o REPORT_ITEM_UNITS \o Money(p.price * p.units_sold) \o REPORT_ITEM_END
        lines[i \in 0..Len(order)] ==
            IF i = 0 THEN <<>> ELSE lines[i - 1] \o line(catalog[order[i]])
    IN  REPORT_HEAD \o now
        \o REPORT_SUMMARY \o Digits(Len(catalog))
        \o REPORT_TOTAL_UNITS \o Digits(UnitsSum(catalog))
        \o REPORT_TOTAL_REVENUE \o Money(RevenueCents(catalog))
        \o REPORT_TOP \o catalog[top].name
        \o REPORT_TOP_UNITS \o Digits(catalog[top].units_sold)
        \o REPORT_TOP_REVENUE \o Money(catalog[top].price * catalog[top].units_sold)
        \o REPORT_LIST \o lines[Len(order)]

\* C15: over a catalog that is not empty, the full report lists every record
\* once, by non-increasing units_sold with equal records in catalog order,
\* and its top performer is the first record with the maximum units_sold,
\* which is the first record listed.
C15_ReportOrder ==
    StaffAsked /\ ReportKeywordIn(arg) /\ products # <<>> =>
        \E now \in Timestamps, order \in ListingOrders(Len(products)),
           top \in DOMAIN products :
            /\ InSalesOrder(products, order)
            /\ FirstMaximum(products, top)
            /\ order[1] = top
            /\ result = Return(ReportWith(products, order, top, now))

\* Staff asked for the report over the catalog with units_sold 30, 30, 10,
\* whose first two records tie: they are listed in catalog order.
C15_Witness ==
    /\ StaffAsked
    /\ arg = MSG_SALES_REPORT
    /\ products = WithUnits(<<30, 30, 10>>)
    /\ result = Return(ReportWith(products, <<1, 2, 3>>, 1, TS_1))

\* C16: a policy rejection leaves the session as it was: when
\* process_message returns the topic or the attribute rejection, the
\* conversation history, the role and the catalog are unchanged and the
\* external model was not called.
C16_RejectionLeavesSessionUnchanged ==
    [][ ( /\ op' = "process_message"
          /\ ~result'.raised
          /\ result'.value \in RejectionTexts ) =>
            /\ UNCHANGED <<conversation_history, user_role, products>>
            /\ calls' = <<>>
      ]_vars

\* A Customer whose conversation history was not empty got the attribute
\* rejection.
C16_Witness ==
    /\ CustomerAsked
    /\ pre.conversation_history # <<>>
    /\ result = Return(ATTRIBUTE_REJECTION_EN)
    /\ conversation_history = pre.conversation_history
    /\ calls = <<>>

\* A text that starts like the full report.
IsReport(text) ==
    /\ Len(text) >= Len(REPORT_HEAD)
    /\ SubSeq(text, 1, Len(REPORT_HEAD)) = REPORT_HEAD

\* C17: for Staff, every message that holds 'report' or 'analytics' gets the
\* full report, also when it holds a revenue, units or best-seller keyword;
\* the conversation history is left as it was and the external model is not
\* called.
C17_ReportTakesPrecedence ==
    StaffAsked /\ ReportKeywordIn(arg) =>
        /\ ~result.raised
        /\ IsReport(result.value)
        /\ conversation_history = pre.conversation_history
        /\ calls = <<>>

\* What remains of C17 when the report cannot be written: over a catalog
\* that is not empty the full report is returned, and over any catalog the
\* conversation history is left as it was and the external model is not
\* called.
ReportPrecedenceOverNonEmptyCatalog ==
    StaffAsked /\ ReportKeywordIn(arg) =>
        /\ products # <<>> => ~result.raised /\ IsReport(result.value)
        /\ conversation_history = pre.conversation_history
        /\ calls = <<>>

\* The narrow analytics answer to a message: the revenue family decides
\* before the units family, the units family before the best-seller family.
NarrowAnswer(catalog, user_message) ==
    LET english == detect_language(user_message) = "english"
    IN  IF RevenueFamilyIn(user_message)
        THEN IF english THEN fmt_en_revenue(catalog) ELSE fmt_ar_revenue(catalog)
        ELSE IF UnitsFamilyIn(user_message)
        THEN IF english THEN fmt_en_units(catalog) ELSE fmt_ar_units(catalog)
        ELSE IF english THEN fmt_en_best(catalog) ELSE fmt_ar_best(catalog)

\* C18: for Staff, a message that holds no report or analytics keyword and
\* matches a narrow analytics family is answered by the first family that
\* matches, in the order revenue, units, best seller; the conversation
\* history gains two entries, the user message and then the answer
\* returned, and the external model is not called.
C18_NarrowAnalyticsRecorded ==
    ( /\ StaffAsked
      /\ ~ReportKeywordIn(arg)
      /\ RevenueFamilyIn(arg) \/ UnitsFamilyIn(arg) \/ BestSellerFamilyIn(arg) ) =>
        /\ result = Return(NarrowAnswer(products, arg))
        /\ conversation_history =
               pre.conversation_history
               \o << [role |-> "user", content |-> arg],
                     [role |-> "assistant", content |-> result.value] >>
        /\ calls = <<>>

\* Staff sent a message of both the revenue and the units family and got
\* the revenue sentence, recorded after the message.
C18_Witness ==
    /\ StaffAsked
    /\ arg = MSG_REVENUE_AND_UNITS
    /\ RevenueFamilyIn(arg)
    /\ UnitsFamilyIn(arg)
    /\ products # <<>>
    /\ result = Return(fmt_en_revenue(products))
    /\ conversation_history =
           pre.conversation_history
           \o << [role |-> "user", content |-> MSG_REVENUE_AND_UNITS],
                 [role |-> "assistant", content |-> fmt_en_revenue(products)] >>

\* C19: process_message calls the external model at most twice: the second
\* call is made only after a first reply in another language than the
\* message, never after a failed call, and its reply is taken without a
\* further call; once the external model was called, process_message hands
\* back its last reply or, if the last call failed, the apology.
C19_AtMostTwoGatewayCalls ==
    op = "process_message" =>
        /\ Len(calls) <= 2
        /\ Len(calls) = 2 =>
            /\ outcome_of(1).kind = "reply"
            /\ detect_language(outcome_of(1).text) # detect_language(arg)
        /\ (calls # <<>> /\ outcome_of(1).kind = "error") => Len(calls) = 1
        /\ calls # <<>> =>
            /\ \A k \in DOMAIN calls : outcome_of(k).kind \in {"reply", "error"}
            /\ result = Return(IF outcome_of(Len(calls)).kind = "reply"
                               THEN outcome_of(Len(calls)).text
                               ELSE APOLOGY)

\* An English message got two Arabic replies: the second one is handed
\* back after two calls.
C19_Witness ==
    /\ op = "process_message"
    /\ arg = MSG_PRICE_EN
    /\ Len(calls) = 2
    /\ outcome_of(1).text = REPLY_AR
    /\ outcome_of(2).kind = "reply"
    /\ outcome_of(2).text = REPLY_AR
    /\ result = Return(REPLY_AR)

IsRecordedAnalytics(entry) ==
    /\ entry.role = "assistant"
    /\ entry.content \in { fmt_en_revenue(products), fmt_ar_revenue(products),
                            fmt_en_units(products), fmt_ar_units(products),
                            fmt_en_best(products), fmt_ar_best(products) }

\* C21: no call of the external model made for a Customer carries, among its
\* prior turns, an analytics answer (revenue, units or best seller) that was
\* recorded earlier in the session for Staff.
C21_NoStaffAnswerInCustomerCall ==
    CustomerAsked =>
        \A k \in DOMAIN calls :
            \A i \in DOMAIN calls[k].conversation_history :
                ~IsRecordedAnalytics(calls[k].conversation_history[i])

\* C23: process_message changes neither the role, the catalog, the
\* attribute policies nor the system prompt, whatever path it takes;
\* set_user_role changes the role only and leaves the conversation history,
\* the catalog and the system prompt as they are; every call of the external
\* model is given the system prompt built from the catalog at construction.
C23_FrameOfProcessMessageAndSetUserRole ==
    [][ /\ op' = "process_message" =>
            /\ UNCHANGED <<user_role, products, attribute_policies, system_prompt>>
            /\ \A k \in DOMAIN calls' :
                /\ calls'[k].system_prompt = system_prompt
                /\ calls'[k].system_prompt = create_system_prompt(products)
        /\ op' = "set_user_role" =>
            UNCHANGED <<conversation_history, products, attribute_policies,
                        system_prompt>>
      ]_vars

\* Staff, over a catalog with products and with earlier turns recorded,
\* sent a message that went to the external model with the system prompt of
\* the construction.
C23_Witness ==
    /\ StaffAsked
    /\ user_role = STAFF
    /\ products # <<>>
    /\ pre.conversation_history # <<>>
    /\ calls # <<>>
    /\ calls[1].system_prompt = create_system_prompt(products)

\* C22: in the web interface, whenever a submitted message has been processed
\* (the last event is "send") or the staff functions are offered (a chatbot
\* is connected and the selected role is staff), the role selected and
\* displayed, session_state.user_role, is the role the connected chatbot
\* enforces, user_role.  Neither is changed by "send", so both are as they
\* were when the message was processed.
C22_DisplayedRoleIsEnforcedRole ==
    /\ op = "send" => session_state.user_role = user_role
    /\ (connected /\ session_state.user_role = "staff") =>
           user_role = session_state.user_role

====
